---- MODULE Spec2Model ----
(***************************************************************************)
(* A model of the Deephaven theming spike: the palette page (palette.js    *)
(* over util.js, and its earlier revision kept in unnamed/part_000), the   *)
(* iframe page (iframe.js), the colour conversions and the HSL range       *)
(* generator.  JavaScript strings are TLA+ strings; JavaScript numbers are *)
(* integers, with the value NaN standing for Number.NaN; fractions are     *)
(* kept exact as numerator and denominator until Math.round.               *)
(***************************************************************************)
EXTENDS Integers, Sequences, FiniteSets, TLC

VARIABLES
    pc,               \* where the running script is
    variant,          \* "util" | "part000" (palette.js over either) | "iframe"
    search,           \* window.location.search
    cssPath,          \* the stylesheet path the run works with
    linkAttached,     \* the <link> element is in document.head
    loaded,           \* the link's load event has fired
    styleSheets,      \* hrefs of document.styleSheets (Null: an inline sheet)
    declared,         \* property names of the matching sheet's first rule
    cssPropertyNames, \* what getCssPropertyNames returned
    container,        \* children appended to #container, in order
    prevProperty,     \* buildSwatches' local
    i,                \* the forEach index
    error,            \* message of the uncaught Error, or Null
    calls,            \* completed buildSwatches calls
    firstCall,        \* what the first buildSwatches call appended
    gen,              \* generateHSLRanges' locals and its logged content
    conv              \* the conversion chain hex -> rgb -> hsl / rgba -> hex8

vars == <<pc, variant, search, cssPath, linkAttached, loaded, styleSheets,
          declared, cssPropertyNames, container, prevProperty, i, error,
          calls, firstCall, gen, conv>>

\* JavaScript null / undefined (never a string the program handles)
Null == "<null>"
\* Number.NaN, outside the range of every number the program computes
NaN == 0 - 1000000

----------------------------------------------------------------------------
(* String primitives *)

CharAt(s, k) == SubSeq(s, k, k)

StartsWith(s, p) == Len(s) >= Len(p) /\ SubSeq(s, 1, Len(p)) = p

EndsWith(s, p) == Len(s) >= Len(p) /\ SubSeq(s, Len(s) - Len(p) + 1, Len(s)) = p

\* String.prototype.substring(a, b) with 0-based a <= b
Substring(s, a, b) ==
    LET hi == IF b > Len(s) THEN Len(s) ELSE b
    IN  IF a >= hi THEN "" ELSE SubSeq(s, a + 1, hi)

Has(str, c) == \E k \in 1..Len(str) : CharAt(str, k) = c

IndexIn(str, c) == CHOOSE k \in 1..Len(str) : CharAt(str, k) = c

IsDigit(c) == Has("0123456789", c)

AllDigits(s) == Len(s) >= 1 /\ \A k \in 1..Len(s) : IsDigit(CharAt(s, k))

\* 1-based position of the last occurrence of c in s, 0 when there is none
LastIndexOf(s, c) ==
    LET hits == {k \in 1..Len(s) : CharAt(s, k) = c}
    IN  IF hits = {} THEN 0 ELSE CHOOSE k \in hits : \A m \in hits : m <= k

\* String.prototype.split on any one character of seps (empty pieces kept)
RECURSIVE SplitFrom(_, _, _, _)
SplitFrom(s, seps, k, cur) ==
    IF k > Len(s) THEN <<cur>>
    ELSE IF Has(seps, CharAt(s, k))
         THEN <<cur>> \o SplitFrom(s, seps, k + 1, "")
         ELSE SplitFrom(s, seps, k + 1, cur \o CharAt(s, k))

Split(s, seps) == SplitFrom(s, seps, 1, "")

\* Array.prototype.filter(Boolean) on strings: the empty string is falsy
RECURSIVE FilterNonEmpty(_)
FilterNonEmpty(q) ==
    IF q = <<>> THEN <<>>
    ELSE IF Head(q) = "" THEN FilterNonEmpty(Tail(q))
         ELSE <<Head(q)>> \o FilterNonEmpty(Tail(q))

\* Number(s) for s the text of a non-negative decimal integer, else NaN
RECURSIVE DecValue(_, _)
DecValue(s, acc) ==
    IF s = "" THEN acc
    ELSE DecValue(SubSeq(s, 2, Len(s)), 10 * acc + IndexIn("0123456789", CharAt(s, 1)) - 1)

Number(s) == IF s # Null /\ AllDigits(s) THEN DecValue(s, 0) ELSE NaN

\* `${n}` of a number
NumText(n) == IF n = NaN THEN "NaN" ELSE ToString(n)

\* Math.round(n / d) for d > 0: the nearest integer, halves towards +Infinity
MathRound(n, d) == (2 * n + d) \div (2 * d)

IsHexDigit(c) == Has("0123456789abcdefABCDEF", c)

HexDigitValue(c) ==
    IF Has("0123456789abcdef", c) THEN IndexIn("0123456789abcdef", c) - 1
    ELSE IndexIn("ABCDEF", c) + 9

\* parseInt(s, 16): the longest prefix of hex digits, NaN when it is empty
RECURSIVE ParseHexFrom(_, _, _)
ParseHexFrom(s, k, acc) ==
    IF k > Len(s) \/ ~IsHexDigit(CharAt(s, k))
    THEN (IF k = 1 THEN NaN ELSE acc)
    ELSE ParseHexFrom(s, k + 1, 16 * acc + HexDigitValue(CharAt(s, k)))

ParseInt16(s) == ParseHexFrom(s, 1, 0)

\* Number.prototype.toString(16) of a non-negative integer
RECURSIVE ToString16(_)
ToString16(n) ==
    IF n < 16 THEN CharAt("0123456789abcdef", n + 1)
    ELSE ToString16(n \div 16) \o CharAt("0123456789abcdef", (n % 16) + 1)

\* Faulty variant: no padding at all
PadStartNone(s) == s

\* String.prototype.padStart(2, "0")
PadStart2(s) == IF Len(s) = 0 THEN "00" ELSE IF Len(s) = 1 THEN "0" \o s ELSE s

\* hex.replace(/[a-z0-9]/gi, "$&$&")
RECURSIVE DoubleAlnum(_)
DoubleAlnum(s) ==
    IF s = "" THEN ""
    ELSE LET c == CharAt(s, 1)
             alnum == Has("abcdefghijklmnopqrstuvwxyzABCDEFGHIJKLMNOPQRSTUVWXYZ0123456789", c)
         IN  (IF alnum THEN c \o c ELSE c) \o DoubleAlnum(SubSeq(s, 2, Len(s)))

----------------------------------------------------------------------------
(* Colour conversions *)

hexToRgb(hex) ==
    IF ~StartsWith(hex, "#") THEN hex
    ELSE LET h6 == IF Len(hex) = 4 THEN DoubleAlnum(hex) ELSE hex
             r == ParseInt16(Substring(h6, 1, 3))
             g == ParseInt16(Substring(h6, 3, 5))
             b == ParseInt16(Substring(h6, 5, 7))
         IN  "rgb(" \o NumText(r) \o " " \o NumText(g) \o " " \o NumText(b) \o ")"

\* /^(rgba?)\((.*?)\)$/ : the text between "rgb(" or "rgba(" and the final ")"
RgbaArgs(str) ==
    IF ~EndsWith(str, ")") THEN Null
    ELSE IF StartsWith(str, "rgba(") THEN SubSeq(str, 6, Len(str) - 1)
    ELSE IF StartsWith(str, "rgb(") THEN SubSeq(str, 5, Len(str) - 1)
    ELSE Null

\* A failed match or a null result: the empty tuple
NoMatch == <<>>

\* The result is the tuple <<r, g, b, a>>, or NoMatch for null
parseRgba(rgbOrRgbaString) ==
    LET args == RgbaArgs(rgbOrRgbaString)
        tokens == FilterNonEmpty(Split(args, " ,/"))
    IN  IF args = Null THEN NoMatch
        ELSE IF Len(tokens) < 3 THEN NoMatch
        ELSE <<Number(tokens[1]), Number(tokens[2]), Number(tokens[3]),
               IF Len(tokens) >= 4 THEN Number(tokens[4]) ELSE 1>>

\* v.toString(16).padStart(2, "0")
HexByte(v) == IF v = NaN THEN "NaN" ELSE PadStart2(ToString16(v))

\* c is the tuple <<r, g, b, a>>
rgbaToHex8(c) ==
    LET a == IF c[4] = NaN THEN NaN ELSE MathRound(c[4] * 255, 1)
    IN  "#" \o HexByte(c[1]) \o HexByte(c[2]) \o HexByte(c[3]) \o HexByte(a)

\* /^rgb\((\d{1,3}) (\d{1,3}) (\d{1,3})\)$/ : the three channel texts, or NoMatch
RgbMatch(rgb) ==
    IF ~(StartsWith(rgb, "rgb(") /\ EndsWith(rgb, ")")) THEN NoMatch
    ELSE LET t == Split(SubSeq(rgb, 5, Len(rgb) - 1), " ")
         IN  IF Len(t) = 3 /\ \A k \in 1..3 : AllDigits(t[k]) /\ Len(t[k]) <= 3
             THEN t ELSE NoMatch

\* Faulty variant: the negative hue of a red with b > g is not brought back into range
HueFractionNoWrap(r, g, b, min, max) ==
    IF max = min THEN [n |-> 0, d |-> 1]
    ELSE IF max = r THEN [n |-> 60 * (g - b), d |-> max - min]
    ELSE IF max = g THEN [n |-> 60 * (b - r) + 120 * (max - min), d |-> max - min]
    ELSE [n |-> 60 * (r - g) + 240 * (max - min), d |-> max - min]

\* The hue in degrees before rounding, as the fraction n / d (channels scaled by 255)
HueFraction(r, g, b, min, max) ==
    LET raw == IF max = min THEN [n |-> 0, d |-> 1]
               ELSE IF max = r THEN [n |-> 60 * (g - b), d |-> max - min]
               ELSE IF max = g THEN [n |-> 60 * (b - r) + 120 * (max - min), d |-> max - min]
               ELSE [n |-> 60 * (r - g) + 240 * (max - min), d |-> max - min]
    IN  IF raw.n < 0 THEN [n |-> raw.n + 360 * raw.d, d |-> raw.d] ELSE raw

\* Math.round(x * 1000) / 10 printed: tenths of a percent, "33.3" or "50"
TenthsText(t) ==
    IF t % 10 = 0 THEN ToString(t \div 10)
    ELSE ToString(t \div 10) \o "." \o ToString(t % 10)

\* The saturation denominator: max + min when l <= 0.5, else 2 - max - min
SatDenominator(min, max) == IF min + max <= 255 THEN max + min ELSE 510 - max - min

\* Math.round of a quotient of doubles whose exact value is n / d.  The doubles
\* r / 255, g / 255, b / 255 are inexact, so a quotient that is exactly k + 1/2 is
\* evaluated a hair below or at the half, and rounds to k or to k + 1; up says
\* which.  Every other quotient rounds as its exact value does.
FloatRound(n, d, up) ==
    IF (2 * n) % (2 * d) = d THEN (n \div d) + (IF up THEN 1 ELSE 0)
    ELSE MathRound(n, d)

\* Which way the two inexact quotients of one rgbToHsl call round at a half
HalfWays == [h : BOOLEAN, s : BOOLEAN]
HalfUp == [h |-> TRUE, s |-> TRUE]

Min3(r, g, b) == IF r <= g /\ r <= b THEN r ELSE IF g <= b THEN g ELSE b
Max3(r, g, b) == IF r >= g /\ r >= b THEN r ELSE IF g >= b THEN g ELSE b

\* The rounded hue rgbToHsl prints for channel values r, g, b
RoundedHue(r, g, b, up) ==
    LET h == HueFraction(r, g, b, Min3(r, g, b), Max3(r, g, b))
    IN  FloatRound(h.n, h.d, up)

\* rgbToHsl of util.js (precise = TRUE: 0.1% steps) and of part_000 (whole percents)
RgbToHslOf(rgb, precise, up) ==
    LET m == RgbMatch(rgb)
    IN  IF m = NoMatch THEN rgb
        ELSE LET r == Number(m[1])
                 g == Number(m[2])
                 b == Number(m[3])
                 min == Min3(r, g, b)
                 max == Max3(r, g, b)
                 sd == SatDenominator(min, max)
                 sText == IF sd = 0 THEN "NaN"
                          ELSE IF precise
                               THEN TenthsText(FloatRound(1000 * (max - min), sd, up.s))
                               ELSE ToString(FloatRound(100 * (max - min), sd, up.s))
                 lText == IF precise THEN TenthsText(MathRound(1000 * (min + max), 510))
                          ELSE ToString(MathRound(100 * (min + max), 510))
             IN  "hsl(" \o ToString(RoundedHue(r, g, b, up.h)) \o "deg "
                        \o sText \o "% " \o lText \o "%)"

rgbToHsl(rgb, up) == RgbToHslOf(rgb, TRUE, up)

rgbToHslPart000(rgb, up) == RgbToHslOf(rgb, FALSE, up)

----------------------------------------------------------------------------
(* The conversion chain on its own: hexToRgb, then rgbToHsl on one side    *)
(* and parseRgba, rgbaToHex8 on the other                                  *)

\* Channel values 0..LowSpan, the two middle values, and 255-HighSpan..255
LowSpan == 2
HighSpan == 2
MaxChannel == 255

ChannelPool == (0..LowSpan) \cup {127, 128} \cup ((MaxChannel - HighSpan)..MaxChannel)

RgbText(r, g, b) == "rgb(" \o ToString(r) \o " " \o ToString(g) \o " " \o ToString(b) \o ")"

\* Colours whose hue or saturation quotient is exactly a half
HalfInputs == {"rgb(4 156 137)", "rgb(25 33 32)", "rgb(3 3 93)", "rgb(7 7 105)"}

RgbInputs ==
    {RgbText(r, g, b) : r \in ChannelPool, g \in ChannelPool, b \in ChannelPool}
    \cup {RgbText(k, k, k) : k \in 0..MaxChannel}
    \cup HalfInputs

HexPairPool == {"00", "0a", "9f", "ff", "A0", "Ff", "c8", "7B"}

HexInputs ==
    {"#" \o p \o q \o t : p \in HexPairPool, q \in HexPairPool, t \in HexPairPool}
    \cup {"#abc", "#F0a", "#000", "#fff"}

NoConv == [src |-> Null, rgb |-> Null, hsl |-> Null, rgba |-> NoMatch, hex8 |-> Null]

NoGen == [phase |-> "idle", names |-> <<>>, groups |-> <<>>, next |-> 1, out |-> <<>>,
          content |-> Null]

\* The page's variables before any script has run
PageIdle ==
    /\ search = Null
    /\ cssPath = Null
    /\ linkAttached = FALSE
    /\ loaded = FALSE
    /\ styleSheets = <<Null>>
    /\ declared = <<>>
    /\ cssPropertyNames = <<>>
    /\ container = <<>>
    /\ prevProperty = Null
    /\ i = 0
    /\ error = Null
    /\ calls = 0
    /\ firstCall = <<>>

pageVars == <<search, cssPath, linkAttached, loaded, styleSheets, declared,
              cssPropertyNames, container, prevProperty, i, error, calls, firstCall>>

InitColor ==
    /\ pc = "convert"
    /\ variant \in {"util", "part000"}
    /\ PageIdle
    /\ gen = NoGen
    /\ \E src \in RgbInputs \cup HexInputs : conv = [NoConv EXCEPT !.src = src]

ConvHexToRgb ==
    /\ conv.rgb = Null
    /\ conv' = [conv EXCEPT !.rgb = hexToRgb(conv.src)]
    /\ UNCHANGED <<pc, variant, pageVars, gen>>

ConvRgbToHsl ==
    /\ conv.rgb # Null
    /\ conv.hsl = Null
    /\ \E up \in HalfWays :
          conv' = [conv EXCEPT !.hsl = IF variant = "util" THEN rgbToHsl(conv.rgb, up)
                                        ELSE rgbToHslPart000(conv.rgb, up)]
    /\ UNCHANGED <<pc, variant, pageVars, gen>>

ConvParseRgba ==
    /\ conv.rgb # Null
    /\ conv.rgba = NoMatch
    /\ parseRgba(conv.rgb) # NoMatch
    /\ conv' = [conv EXCEPT !.rgba = parseRgba(conv.rgb)]
    /\ UNCHANGED <<pc, variant, pageVars, gen>>

ConvRgbaToHex8 ==
    /\ conv.rgba # NoMatch
    /\ conv.hex8 = Null
    /\ conv' = [conv EXCEPT !.hex8 = rgbaToHex8(conv.rgba)]
    /\ UNCHANGED <<pc, variant, pageVars, gen>>

NextColor == ConvHexToRgb \/ ConvRgbToHsl \/ ConvParseRgba \/ ConvRgbaToHex8

SpecColor == InitColor /\ [][NextColor]_vars

----------------------------------------------------------------------------
(* Properties of the conversions *)

\* The three space-separated pieces of "hsl(<h>deg <s>% <l>%)"
HslPieces(hsl) == Split(SubSeq(hsl, 5, Len(hsl) - 1), " ")
HueText(hsl) == LET t == HslPieces(hsl)[1] IN SubSeq(t, 1, Len(t) - 3)
SatText(hsl) == LET t == HslPieces(hsl)[2] IN SubSeq(t, 1, Len(t) - 1)

\* The channel values of an rgb(r g b) text with every channel in 0..255, else NoMatch
Channels(rgb) ==
    LET m == RgbMatch(rgb)
    IN  IF m = NoMatch THEN NoMatch
        ELSE IF \A k \in 1..3 : Number(m[k]) <= MaxChannel
             THEN <<Number(m[1]), Number(m[2]), Number(m[3])>> ELSE NoMatch

IsGray(rgb) ==
    LET c == Channels(rgb) IN c # NoMatch /\ c[1] = c[2] /\ c[2] = c[3]

\* C1: every gray (r = g = b in 0..255, black and white included) converts to an
\* HSL text whose hue is 0deg and whose saturation is 0%.
C1_GrayInvariance ==
    (conv.hsl # Null /\ IsGray(conv.rgb))
        => (HueText(conv.hsl) = "0" /\ SatText(conv.hsl) = "0")

IsHex6(hex) ==
    /\ Len(hex) = 7
    /\ CharAt(hex, 1) = "#"
    /\ \A k \in 2..7 : IsHexDigit(CharAt(hex, k))

RECURSIVE ToLowerCase(_)
ToLowerCase(s) ==
    IF s = "" THEN ""
    ELSE LET c == CharAt(s, 1)
         IN  (IF Has("ABCDEF", c) THEN CharAt("abcdef", IndexIn("ABCDEF", c)) ELSE c)
             \o ToLowerCase(SubSeq(s, 2, Len(s)))

HasUpperCase(s) == \E k \in 1..Len(s) : Has("ABCDEF", CharAt(s, k))

\* C3 as stated: hexToRgb, parseRgba, rgbaToHex8 in turn give back, in the first 7
\* characters, exactly the 6-digit hex colour they started from, in either letter case.
C3_RoundTripExact ==
    (conv.hex8 # Null /\ IsHex6(conv.src)) => Substring(conv.hex8, 0, 7) = conv.src

\* C3 as amended: the first 7 characters are the original colour with its letters in
\* lower case, so the original itself exactly when it has no upper-case digit.
C3_RoundTripLowerCase ==
    (conv.hex8 # Null /\ IsHex6(conv.src))
        => /\ Substring(conv.hex8, 0, 7) = ToLowerCase(conv.src)
           /\ (Substring(conv.hex8, 0, 7) = conv.src) <=> ~HasUpperCase(conv.src)

C3_Witness ==
    /\ conv.src = "#A0Ff7B"
    /\ conv.hex8 = "#a0ff7bff"

\* C8 as stated: the rounded hue of every rgb(r g b) with channels in 0..255 is an
\* integer h with 0 <= h < 360.
C8_HueBelow360 ==
    (conv.hsl # Null /\ Channels(conv.rgb) # NoMatch)
        => Number(HueText(conv.hsl)) \in 0..359

\* C8 as amended: the rounded hue is an integer h with 0 <= h <= 360, and 360 is
\* what a red prints whose hue before rounding is 359.5 or more.
C8_HueUpTo360 ==
    (conv.hsl # Null /\ Channels(conv.rgb) # NoMatch)
        => LET c == Channels(conv.rgb)
               h == Number(HueText(conv.hsl))
           IN  /\ h \in 0..360
               /\ h = 360 => (c[1] > c[3] /\ c[3] > c[2]
                               /\ 120 * (c[3] - c[2]) <= c[1] - c[2])

C8_Witness ==
    /\ conv.rgb = "rgb(255 0 1)"
    /\ conv.hsl # Null
    /\ HueText(conv.hsl) = "360"

----------------------------------------------------------------------------
(* The browser, as the scripts see it *)

\* The theme: computedStyle.getPropertyValue(property) of a custom property
\* ("" when the stylesheet does not set it).  No colour here has a hue or
\* saturation quotient that is exactly a half (ThemeHasNoHalf).
Resolve(property) ==
    CASE property = "--dh-color-gray-75" -> "#fafafa"
      [] property = "--dh-color-gray-900" -> "#000000"
      [] property = "--dh-color-blue-100" -> "#0064c8"
      [] property = "--dh-color-blue-700" -> "#0032C8"
      [] property = "--dh-color-blue-900" -> "#0096c8"
      [] property = "--dh-color-red-900" -> "#c80000"
      [] property = "--dh-color-red-label" -> "#c80000"
      [] property = "--dh-color-grayx-100" -> "#808080"
      [] property = "--dh-color-grayx-500" -> "#7080a0"
      [] property = "--dh-color-light-blue-100" -> "#64c8ff"
      [] property = "--dh-color-white-100" -> "#ffffff"
      [] property = "--dh-color-blue-hue" -> "210deg"
      [] property = "--dh-color-blue-100-hsl" -> "var(--dh-color-blue-hue), 100%, 39.2%"
      [] property = "--dh-accent" -> "hsl(210deg 100% 39.2%)"
      [] OTHER -> ""

\* computedStyle.getPropertyValue("background-color") of a div whose background
\* is var(property): the used colour in the browser's rgb() / rgba() notation,
\* transparent when the value is no colour
ComputedBackground(property) ==
    LET value == Resolve(property)
    IN  IF StartsWith(value, "#") /\ Len(value) = 7
        THEN "rgb(" \o NumText(ParseInt16(Substring(value, 1, 3))) \o ", "
                    \o NumText(ParseInt16(Substring(value, 3, 5))) \o ", "
                    \o NumText(ParseInt16(Substring(value, 5, 7))) \o ")"
        ELSE IF value = "hsl(210deg 100% 39.2%)" THEN "rgb(0, 100, 200)"
        ELSE "rgba(0, 0, 0, 0)"

ThemedNames ==
    {"--dh-color-gray-75", "--dh-color-gray-900", "--dh-color-blue-100",
     "--dh-color-blue-700", "--dh-color-blue-900", "--dh-color-red-900",
     "--dh-color-red-label", "--dh-color-grayx-100", "--dh-color-grayx-500",
     "--dh-color-light-blue-100", "--dh-color-white-100", "--dh-color-blue-hue",
     "--dh-color-blue-100-hsl", "--dh-accent"}

ThemeHasNoHalf ==
    \A property \in ThemedNames : \A up \in HalfWays :
        /\ rgbToHsl(hexToRgb(Resolve(property)), up) = rgbToHsl(hexToRgb(Resolve(property)), HalfUp)
        /\ rgbToHslPart000(hexToRgb(Resolve(property)), up)
               = rgbToHslPart000(hexToRgb(Resolve(property)), HalfUp)

\* The page's own URL directory and origin
PageOrigin == "http://h"
PageBase == "http://h/p/"

\* The href the browser gives the link's stylesheet: the path resolved against the page
ResolveUrl(path) ==
    IF StartsWith(path, "/") THEN PageOrigin \o path
    ELSE IF StartsWith(path, "../") THEN PageOrigin \o "/" \o SubSeq(path, 4, Len(path))
    ELSE PageBase \o path

\* document.styleSheets before the link loads: the page's inline <style>, href null
PageSheets == <<Null>>

----------------------------------------------------------------------------
(* Property names *)

ColorPrefix == "--dh-color-"

\* 1-based positions after the prefix at which prop has a "-" (followed by a digit
\* when digitNext), least first; 0 when there is none
FirstDash(prop, digitNext) ==
    LET from == Len(ColorPrefix) + 1
        hits == {k \in from..Len(prop) :
                    /\ CharAt(prop, k) = "-"
                    /\ digitNext => (k < Len(prop) /\ IsDigit(CharAt(prop, k + 1)))}
    IN  IF hits = {} THEN 0 ELSE CHOOSE k \in hits : \A m \in hits : k <= m

\* /^--dh-color-(.*?)-/.exec(property)?.[1]  (undefined is Null; null reads "null")
extractColorName(property) ==
    IF property = Null \/ ~StartsWith(property, ColorPrefix) \/ FirstDash(property, FALSE) = 0
    THEN Null
    ELSE SubSeq(property, Len(ColorPrefix) + 1, FirstDash(property, FALSE) - 1)

\* iframe.js's copy of the same pattern
getPrefix(property) == extractColorName(property)

\* /^--dh-color-(.*?)-\d/.exec(property)?.[1]
colorPropName(property) ==
    IF ~StartsWith(property, ColorPrefix) \/ FirstDash(property, TRUE) = 0
    THEN Null
    ELSE SubSeq(property, Len(ColorPrefix) + 1, FirstDash(property, TRUE) - 1)

\* The length of the longest run of digits that ends s
RECURSIVE TrailingDigits(_)
TrailingDigits(s) ==
    IF s = "" \/ ~IsDigit(CharAt(s, Len(s))) THEN 0
    ELSE 1 + TrailingDigits(SubSeq(s, 1, Len(s) - 1))

\* /-(\d+)$/.exec(property)?.[1]
colorWeight(property) ==
    LET n == TrailingDigits(property)
    IN  IF n >= 1 /\ n < Len(property) /\ CharAt(property, Len(property) - n) = "-"
        THEN SubSeq(property, Len(property) - n + 1, Len(property))
        ELSE Null

LightText == "var(--dh-color-gray-75)"
DarkText == "var(--dh-color-gray-800)"
ShadeThreshold == 700

\* Faulty variant: the threshold shade itself counted as a light shade
ForegroundUtilAbove(property) ==
    IF colorWeight(property) = Null \/ Number(colorWeight(property)) <= ShadeThreshold
    THEN DarkText ELSE LightText

\* util.js: colorWeight == null || colorWeight < 700 ? gray-800 : gray-75
ForegroundUtil(property) ==
    IF colorWeight(property) = Null \/ Number(colorWeight(property)) < ShadeThreshold
    THEN DarkText ELSE LightText

\* part_000 and iframe.js: colorWeight == null || colorWeight >= 700 ? gray-75 : gray-800
ForegroundPart000(property) ==
    IF colorWeight(property) = Null \/ Number(colorWeight(property)) >= ShadeThreshold
    THEN LightText ELSE DarkText

----------------------------------------------------------------------------
(* Swatches *)

Element(tag, html, marginTop, background, color, title) ==
    [tag |-> tag, html |-> html, marginTop |-> marginTop,
     background |-> background, color |-> color, title |-> title]

\* i > 0 && family(property) !== family(prevProperty) && !/-hue$/.test(prevProperty)
MarginTop(property, idx, prev) ==
    IF idx > 0 /\ extractColorName(property) # extractColorName(prev) /\ ~EndsWith(prev, "-hue")
    THEN "40px" ELSE ""

\* property.replace(/-hsl$/, "")
StripHsl(property) ==
    IF EndsWith(property, "-hsl") THEN SubSeq(property, 1, Len(property) - 4) ELSE property

\* The label of util.js and part_000, given the variant's rgbToHsl text of the value
LabelHtml(property, colorValue, hslColorValue) ==
    LET isHex == colorValue # hslColorValue
        isLabel == EndsWith(property, "-label")
    IN  property \o ": " \o
        (IF ~isHex /\ ~isLabel THEN colorValue
         ELSE colorValue \o " <span title=\"HSL based on original HEX color\">"
              \o (IF isLabel THEN "HSL derived from hex" ELSE hslColorValue) \o "</span>")

\* The div one iteration of util.js's forEach appends and styles
SwatchUtil(property, idx, prev) ==
    LET colorValue == Resolve(property)
        isHue == EndsWith(property, "-hue")
    IN  Element("div",
                LabelHtml(property, colorValue, rgbToHsl(hexToRgb(colorValue), HalfUp)),
                MarginTop(property, idx, prev),
                IF isHue THEN "" ELSE "var(" \o StripHsl(property) \o ")",
                IF isHue THEN "" ELSE ForegroundUtil(property),
                IF isHue THEN ""
                ELSE Substring(rgbaToHex8(parseRgba(ComputedBackground(property))), 0, 7))

\* The same of part_000
SwatchPart000(property, idx, prev) ==
    LET colorValue == Resolve(property)
        isHue == EndsWith(property, "-hue")
    IN  Element("div",
                LabelHtml(property, colorValue, rgbToHslPart000(hexToRgb(colorValue), HalfUp)),
                MarginTop(property, idx, prev),
                IF isHue THEN "" ELSE "var(" \o property \o ")",
                IF isHue THEN "" ELSE ForegroundPart000(property),
                "")

\* The same of iframe.js
SwatchIframe(property, idx, prev) ==
    LET isHue == EndsWith(property, "-hue")
    IN  Element("div",
                property \o ": " \o Resolve(property),
                IF idx > 0 /\ getPrefix(property) # getPrefix(prev) /\ ~EndsWith(prev, "-hue")
                THEN "40px" ELSE "",
                IF isHue THEN "" ELSE "var(" \o property \o ")",
                IF isHue THEN "" ELSE ForegroundPart000(property),
                "")

Swatch(property, idx, prev) ==
    CASE variant = "util" -> SwatchUtil(property, idx, prev)
      [] variant = "part000" -> SwatchPart000(property, idx, prev)
      [] OTHER -> SwatchIframe(property, idx, prev)

\* util.js alone returns from the iteration at once for a name ending in -hsl
Skipped(property) == variant = "util" /\ EndsWith(property, "-hsl")

convGenVars == <<gen, conv>>
loadVars == <<search, cssPath, linkAttached, loaded, styleSheets, declared, cssPropertyNames, error>>

\* Faulty variant: prevProperty kept across calls, as a module-level variable would be
BuildSwatchesKeepPrev ==
    /\ pc = "build"
    /\ i' = 0
    /\ pc' = "forEach"
    /\ UNCHANGED <<prevProperty, variant, loadVars, container, calls, firstCall, convGenVars>>

\* buildSwatches is entered: let prevProperty = null, and forEach starts at index 0
BuildSwatches ==
    /\ pc = "build"
    /\ prevProperty' = Null
    /\ i' = 0
    /\ pc' = "forEach"
    /\ UNCHANGED <<variant, loadVars, container, calls, firstCall, convGenVars>>

\* One iteration of the forEach callback
ForEachProperty ==
    /\ pc = "forEach"
    /\ i < Len(cssPropertyNames)
    /\ LET property == cssPropertyNames[i + 1]
       IN  IF Skipped(property)
           THEN UNCHANGED <<container, prevProperty>>
           ELSE /\ container' = Append(container, Swatch(property, i, prevProperty))
                /\ prevProperty' = property
    /\ i' = i + 1
    /\ UNCHANGED <<pc, variant, loadVars, calls, firstCall, convGenVars>>

\* forEach is through and buildSwatches returns
Return ==
    /\ pc = "forEach"
    /\ i = Len(cssPropertyNames)
    /\ pc' = "done"
    /\ calls' = calls + 1
    /\ firstCall' = IF calls = 0 THEN container ELSE firstCall
    /\ UNCHANGED <<variant, loadVars, container, prevProperty, i, convGenVars>>

----------------------------------------------------------------------------
(* buildSwatches on its own, called again with the same arguments *)

MaxProps == 3
MaxCalls == 2

BuildPool ==
    {"--dh-color-gray-75", "--dh-color-blue-100", "--dh-color-blue-700",
     "--dh-color-red-900", "--dh-color-blue-hue", "--dh-color-blue-100-hsl",
     "--dh-color-red-label", "--dh-accent"}

\* The lists of at most n distinct names of pool (a style rule names a property once)
NameLists(pool, n) ==
    UNION {{q \in [1..k -> pool] : \A a, b \in 1..k : a # b => q[a] # q[b]} : k \in 0..n}

InitBuild ==
    /\ ThemeHasNoHalf
    /\ pc = "build"
    /\ variant \in {"util", "part000", "iframe"}
    /\ search = Null
    /\ cssPath = Null
    /\ linkAttached = FALSE
    /\ loaded = FALSE
    /\ styleSheets = PageSheets
    /\ declared = <<>>
    /\ cssPropertyNames \in NameLists(BuildPool, MaxProps)
    /\ container = <<>>
    /\ prevProperty = Null
    /\ i = 0
    /\ error = Null
    /\ calls = 0
    /\ firstCall = <<>>
    /\ gen = NoGen
    /\ conv = NoConv

\* The caller calls buildSwatches again (iframe.js's loop is the script body: it runs once)
CallAgain ==
    /\ pc = "done"
    /\ variant # "iframe"
    /\ calls < MaxCalls
    /\ pc' = "build"
    /\ UNCHANGED <<variant, loadVars, container, prevProperty, i, calls, firstCall, convGenVars>>

NextBuild == BuildSwatches \/ ForEachProperty \/ Return \/ CallAgain

SpecBuild == InitBuild /\ [][NextBuild]_vars

----------------------------------------------------------------------------
(* generateHSLRanges *)

\* A text of digits, or of digits, a point and digits: \d+(?:\.\d+)?
IsDecimal(t) ==
    LET q == Split(t, ".")
    IN  Len(q) \in {1, 2} /\ \A k \in 1..Len(q) : AllDigits(q[k])

\* /^hsl\((\d+)deg (\d+(?:\.\d+)?)% (\d+(?:\.\d+)?)%\)$/ : <<h, s, l>> or NoMatch
extractHsl(hsl) ==
    IF ~(StartsWith(hsl, "hsl(") /\ EndsWith(hsl, ")")) THEN NoMatch
    ELSE LET t == Split(SubSeq(hsl, 5, Len(hsl) - 1), " ")
         IN  IF /\ Len(t) = 3
                /\ EndsWith(t[1], "deg") /\ AllDigits(SubSeq(t[1], 1, Len(t[1]) - 3))
                /\ EndsWith(t[2], "%") /\ IsDecimal(SubSeq(t[2], 1, Len(t[2]) - 1))
                /\ EndsWith(t[3], "%") /\ IsDecimal(SubSeq(t[3], 1, Len(t[3]) - 1))
             THEN <<SubSeq(t[1], 1, Len(t[1]) - 3),
                    SubSeq(t[2], 1, Len(t[2]) - 1),
                    SubSeq(t[3], 1, Len(t[3]) - 1)>>
             ELSE NoMatch

\* colorGroups after the first loop: one entry per family, in order of first
\* appearance, with the family's property names in order
RECURSIVE GroupProperties(_, _)
GroupProperties(groups, names) ==
    IF names = <<>> THEN groups
    ELSE LET property == Head(names)
             colorName == colorPropName(property)
             at == {k \in 1..Len(groups) : groups[k].colorName = colorName}
         IN  IF colorName = Null THEN GroupProperties(groups, Tail(names))
             ELSE IF at = {}
             THEN GroupProperties(
                      Append(groups, [colorName |-> colorName, props |-> <<property>>]),
                      Tail(names))
             ELSE GroupProperties(
                      [groups EXCEPT ![CHOOSE k \in at : TRUE].props = Append(@, property)],
                      Tail(names))

\* total + Number(extractHsl.exec(hsl)?.[1]) over the family's colours
RECURSIVE SumHues(_)
SumHues(hues) ==
    IF hues = <<>> THEN 0
    ELSE IF Head(hues) = NaN \/ SumHues(Tail(hues)) = NaN THEN NaN
    ELSE Head(hues) + SumHues(Tail(hues))

\* The hue the generator reads from one HSL text: Number(h), NaN without a match
ParsedHue(hsl) ==
    IF extractHsl(hsl) = NoMatch THEN NaN ELSE Number(extractHsl(hsl)[1])

PinnedFamily == "grayx"

\* hueAvg of a family
HueAverage(colorName, hues) ==
    IF colorName = PinnedFamily THEN 0
    ELSE IF SumHues(hues) = NaN THEN NaN
    ELSE MathRound(SumHues(hues), Len(hues))

\* Faulty variant: the sign is taken from the shade's hue, not from the offset
HslDeclarationSignOfHue(colorName, hsl, hueAvg) ==
    LET m == extractHsl(hsl)
        h == ParsedHue(hsl)
        offset == IF colorName = PinnedFamily THEN 0
                  ELSE IF h = NaN \/ hueAvg = NaN THEN NaN ELSE h - hueAvg
        sign == IF h # NaN /\ h >= 0 THEN "+" ELSE "-"
        abs == IF offset = NaN THEN NaN ELSE IF offset < 0 THEN 0 - offset ELSE offset
        sText == IF m = NoMatch THEN "undefined" ELSE m[2]
        lText == IF m = NoMatch THEN "undefined" ELSE m[3]
        hueVar == "var(--dh-color-" \o colorName \o "-hue)"
    IN  IF offset = 0 THEN hueVar \o ", " \o sText \o "%, " \o lText \o "%"
        ELSE "calc(" \o hueVar \o " " \o sign \o " " \o NumText(abs) \o "deg), "
             \o sText \o "%, " \o lText \o "%"

\* The value of one shade's -hsl declaration
HslDeclaration(colorName, hsl, hueAvg) ==
    LET m == extractHsl(hsl)
        h == ParsedHue(hsl)
        offset == IF colorName = PinnedFamily THEN 0
                  ELSE IF h = NaN \/ hueAvg = NaN THEN NaN ELSE h - hueAvg
        sign == IF offset # NaN /\ offset >= 0 THEN "+" ELSE "-"
        abs == IF offset = NaN THEN NaN ELSE IF offset < 0 THEN 0 - offset ELSE offset
        sText == IF m = NoMatch THEN "undefined" ELSE m[2]
        lText == IF m = NoMatch THEN "undefined" ELSE m[3]
        hueVar == "var(--dh-color-" \o colorName \o "-hue)"
    IN  IF offset = 0 THEN hueVar \o ", " \o sText \o "%, " \o lText \o "%"
        ELSE "calc(" \o hueVar \o " " \o sign \o " " \o NumText(abs) \o "deg), "
             \o sText \o "%, " \o lText \o "%"

\* The HSL texts of a family's colours: rgbToHsl(hexToRgb(hex)) of each
HslColors(props) == [k \in 1..Len(props) |-> rgbToHsl(hexToRgb(Resolve(props[k])), HalfUp)]

\* baseHues, hslColorGroups and colorGroups of one family after the second loop
ConvertFamily(group) ==
    LET hslColors == HslColors(group.props)
        hues == [k \in 1..Len(hslColors) |-> ParsedHue(hslColors[k])]
        hueAvg == HueAverage(group.colorName, hues)
    IN  [colorName |-> group.colorName,
         baseHue |-> <<"--dh-color-" \o group.colorName \o "-hue", NumText(hueAvg) \o "deg">>,
         hsl |-> [k \in 1..Len(hslColors) |->
                    <<group.props[k] \o "-hsl",
                      HslDeclaration(group.colorName, hslColors[k], hueAvg)>>],
         color |-> [k \in 1..Len(hslColors) |->
                    <<group.props[k], "hsl(var(" \o group.props[k] \o "-hsl))">>]]

RECURSIVE Join(_, _)
Join(q, sep) ==
    IF q = <<>> THEN ""
    ELSE IF Len(q) = 1 THEN q[1]
    ELSE q[1] \o sep \o Join(Tail(q), sep)

\* colorName.replace(/^([a-z])/, (a) => a.toUpperCase())
Capitalize(name) ==
    IF name # "" /\ Has("abcdefghijklmnopqrstuvwxyz", CharAt(name, 1))
    THEN CharAt("ABCDEFGHIJKLMNOPQRSTUVWXYZ", IndexIn("abcdefghijklmnopqrstuvwxyz", CharAt(name, 1)))
         \o SubSeq(name, 2, Len(name))
    ELSE name

DeclarationLines(decls) == [k \in 1..Len(decls) |-> decls[k][1] \o ": " \o decls[k][2] \o ";"]

\* The text of one family
FamilyText(f) ==
    Join(<<"/* " \o Capitalize(f.colorName) \o " */", f.baseHue[1] \o ": " \o f.baseHue[2] \o ";", "">>
         \o DeclarationLines(f.hsl) \o <<"">> \o DeclarationLines(f.color), "\n")

\* The content the generator logs
Content(out) == Join([k \in 1..Len(out) |-> FamilyText(out[k])], "\n\n")

\* The first loop: the properties grouped by family
GenGroup ==
    /\ pc = "generate"
    /\ gen.phase = "group"
    /\ gen' = [gen EXCEPT !.groups = GroupProperties(<<>>, gen.names), !.phase = "family"]
    /\ UNCHANGED <<pc, variant, pageVars, conv>>

\* One round of the loop over the families
GenFamily ==
    /\ pc = "generate"
    /\ gen.phase = "family"
    /\ gen.next <= Len(gen.groups)
    /\ gen' = [gen EXCEPT !.out = Append(@, ConvertFamily(gen.groups[gen.next])),
                          !.next = @ + 1]
    /\ UNCHANGED <<pc, variant, pageVars, conv>>

\* The content is put together and logged; generateHSLRanges returns
GenContent ==
    /\ pc = "generate"
    /\ gen.phase = "family"
    /\ gen.next > Len(gen.groups)
    /\ gen' = [gen EXCEPT !.content = Content(gen.out), !.phase = "logged"]
    /\ pc' = "heading"
    /\ UNCHANGED <<variant, pageVars, conv>>

MaxGenProps == 3

GenPool ==
    {"--dh-color-blue-100", "--dh-color-blue-700", "--dh-color-blue-900",
     "--dh-color-grayx-100", "--dh-color-grayx-500", "--dh-color-white-100",
     "--dh-color-gray-75", "--dh-color-light-blue-100", "--dh-color-red-label"}

InitGen ==
    /\ ThemeHasNoHalf
    /\ pc = "generate"
    /\ variant = "util"
    /\ PageIdle
    /\ conv = NoConv
    /\ \E names \in NameLists(GenPool, MaxGenProps) :
          gen = [NoGen EXCEPT !.phase = "group", !.names = names]

NextGen == GenGroup \/ GenFamily \/ GenContent

SpecGen == InitGen /\ [][NextGen]_vars

----------------------------------------------------------------------------
(* The page: palette.js over util.js or part_000, and iframe.js *)

DefaultCssPath == "themes/hex.css"
ErrNoPath == "No css path provided"
ErrNoSheet == "No style sheet found"

\* /^\?css=(.*)$/.exec(window.location.search)?.[1]
CssParam(query) == IF StartsWith(query, "?css=") THEN SubSeq(query, 6, Len(query)) ELSE Null

\* getCssPath: the css parameter, or the default path when there is none
getCssPath(query) == IF CssParam(query) = Null THEN DefaultCssPath ELSE CssParam(query)

\* The script reads its path: palette.js defaults it, iframe.js throws without one
GetCssPath ==
    /\ pc = "start"
    /\ IF variant = "iframe" /\ CssParam(search) = Null
       THEN /\ error' = ErrNoPath
            /\ pc' = "failed"
            /\ UNCHANGED cssPath
       ELSE /\ cssPath' = IF variant = "iframe" THEN CssParam(search) ELSE getCssPath(search)
            /\ pc' = "attach"
            /\ UNCHANGED error
    /\ UNCHANGED <<variant, search, linkAttached, loaded, styleSheets, declared,
                   cssPropertyNames, container, prevProperty, i, calls, firstCall,
                   convGenVars>>

\* Faulty variant: the script goes on without awaiting linkLoaded
AttachLinkNoAwait ==
    /\ pc = "attach"
    /\ linkAttached' = TRUE
    /\ pc' = "lookup"
    /\ UNCHANGED <<variant, search, cssPath, loaded, styleSheets, declared,
                   cssPropertyNames, container, prevProperty, i, error, calls,
                   firstCall, convGenVars>>

\* The link element is made, given its listener, appended to head; the script awaits
AttachLink ==
    /\ pc = "attach"
    /\ linkAttached' = TRUE
    /\ pc' = "await"
    /\ UNCHANGED <<variant, search, cssPath, loaded, styleSheets, declared,
                   cssPropertyNames, container, prevProperty, i, error, calls,
                   firstCall, convGenVars>>

\* The browser has loaded the stylesheet and fires the link's load event, which
\* resolves linkLoaded.  Nothing makes it happen: a missing resource never loads.
LoadEvent ==
    /\ pc = "await"
    /\ loaded' = TRUE
    /\ styleSheets' = Append(styleSheets, ResolveUrl(cssPath))
    /\ pc' = "lookup"
    /\ UNCHANGED <<variant, search, cssPath, linkAttached, declared, cssPropertyNames,
                   container, prevProperty, i, error, calls, firstCall, convGenVars>>

\* Faulty variant: the href compared with the path alone, without the leading slash
FindStyleSheetNoSlash(sheets, path) ==
    LET hits == {k \in 1..Len(sheets) : sheets[k] # Null /\ EndsWith(sheets[k], path)}
    IN  IF hits = {} THEN 0 ELSE CHOOSE k \in hits : \A m \in hits : k <= m

\* The first sheet whose href ends with "/" + cssPath (its index), 0 when none does
FindStyleSheet(sheets, path) ==
    LET hits == {k \in 1..Len(sheets) : sheets[k] # Null /\ EndsWith(sheets[k], "/" \o path)}
    IN  IF hits = {} THEN 0 ELSE CHOOSE k \in hits : \A m \in hits : k <= m

\* Object.values(rule.style).filter((property) => property.startsWith("--"))
RECURSIVE CustomProperties(_)
CustomProperties(names) ==
    IF names = <<>> THEN <<>>
    ELSE IF StartsWith(Head(names), "--")
         THEN <<Head(names)>> \o CustomProperties(Tail(names))
         ELSE CustomProperties(Tail(names))

\* getCssPropertyNames (inline in iframe.js): throws when no sheet is found; in
\* util.js loadCssProperties then calls generateHSLRanges for a path ending in hex.css
GetCssPropertyNames ==
    /\ pc = "lookup"
    /\ IF FindStyleSheet(styleSheets, cssPath) = 0
       THEN /\ error' = ErrNoSheet
            /\ pc' = "failed"
            /\ UNCHANGED <<cssPropertyNames, gen>>
       ELSE /\ cssPropertyNames' = CustomProperties(declared)
            /\ UNCHANGED error
            /\ IF variant = "util" /\ EndsWith(cssPath, "hex.css")
               THEN /\ pc' = "generate"
                    /\ gen' = [NoGen EXCEPT !.phase = "group",
                                            !.names = CustomProperties(declared)]
               ELSE /\ pc' = "heading"
                    /\ UNCHANGED gen
    /\ UNCHANGED <<variant, search, cssPath, linkAttached, loaded, styleSheets, declared,
                   container, prevProperty, i, calls, firstCall, conv>>

\* setHeading (inline in iframe.js): an h1 with the path's last segment
SetHeading ==
    /\ pc = "heading"
    /\ container' = Append(container,
          Element("h1", SubSeq(cssPath, LastIndexOf(cssPath, "/") + 1, Len(cssPath)),
                  "", "", "", ""))
    /\ pc' = "build"
    /\ UNCHANGED <<variant, loadVars, prevProperty, i, calls, firstCall, convGenVars>>

MaxDeclared == 2

SearchPool ==
    {"", "?css=themes/hex.css", "?css=themes/hsl.css", "?css=../hex.css",
     "?css=/p/themes/hex.css"}

DeclaredPool ==
    {"color", "--dh-color-blue-100", "--dh-color-blue-100-hsl", "--dh-color-gray-900"}

Init ==
    /\ ThemeHasNoHalf
    /\ pc = "start"
    /\ variant \in {"util", "part000", "iframe"}
    /\ search \in SearchPool
    /\ cssPath = Null
    /\ linkAttached = FALSE
    /\ loaded = FALSE
    /\ styleSheets = PageSheets
    /\ declared \in NameLists(DeclaredPool, MaxDeclared)
    /\ cssPropertyNames = <<>>
    /\ container = <<>>
    /\ prevProperty = Null
    /\ i = 0
    /\ error = Null
    /\ calls = 0
    /\ firstCall = <<>>
    /\ gen = NoGen
    /\ conv = NoConv

Next ==
    \/ GetCssPath
    \/ AttachLink
    \/ LoadEvent
    \/ GetCssPropertyNames
    \/ GenGroup
    \/ GenFamily
    \/ GenContent
    \/ SetHeading
    \/ BuildSwatches
    \/ ForEachProperty
    \/ Return

Spec == Init /\ [][Next]_vars

----------------------------------------------------------------------------
(* Properties of the swatches *)

\* The text of s before its first c (all of s when it has none)
Before(s, c) ==
    LET hits == {k \in 1..Len(s) : CharAt(s, k) = c}
    IN  IF hits = {} THEN s
        ELSE SubSeq(s, 1, (CHOOSE k \in hits : \A m \in hits : k <= m) - 1)

\* The property a swatch shows: its label up to the first colon
PropertyOf(el) == Before(el.html, ":")

\* The numeric shade a name ends in ("-" and digits to the end), NaN when it has none
ShadeOf(property) ==
    LET cuts == {k \in 1..(Len(property) - 1) :
                    /\ CharAt(property, k) = "-"
                    /\ AllDigits(SubSeq(property, k + 1, Len(property)))}
    IN  IF cuts = {} THEN NaN
        ELSE Number(SubSeq(property, (CHOOSE k \in cuts : TRUE) + 1, Len(property)))

\* C2: in every variant, a swatch of a non-hue property whose name ends in a numeric
\* shade gets the light text var(--dh-color-gray-75) when the shade is 700 or more
\* and the dark text var(--dh-color-gray-800) when it is less.
C2_ShadeThreshold ==
    \A k \in 1..Len(container) :
        LET el == container[k]
            shade == ShadeOf(PropertyOf(el))
        IN  (el.tag = "div" /\ ~EndsWith(PropertyOf(el), "-hue") /\ shade # NaN)
                => el.color = (IF shade >= 700 THEN "var(--dh-color-gray-75)"
                               ELSE "var(--dh-color-gray-800)")

C2_Witness ==
    /\ variant = "util"
    /\ \E j, k \in 1..Len(container) :
          /\ PropertyOf(container[j]) = "--dh-color-blue-700"
          /\ container[j].color = "var(--dh-color-gray-75)"
          /\ PropertyOf(container[k]) = "--dh-color-gray-75"
          /\ container[k].color = "var(--dh-color-gray-800)"

\* C7: a second call of buildSwatches with the same names and the same resolved
\* values appends the same swatches again (label, margin, background, text colour
\* and tooltip), so after n calls the container is n copies of the first call's work.
C7_Idempotent ==
    (pc = "done" /\ calls >= 1)
        => LET n == Len(firstCall)
           IN  /\ Len(container) = calls * n
               /\ \A c \in 1..calls :
                     SubSeq(container, (c - 1) * n + 1, c * n) = firstCall

C7_Witness ==
    /\ pc = "done"
    /\ calls = 2
    /\ variant = "util"
    /\ Len(firstCall) >= 2
    /\ \E k \in 1..Len(firstCall) : firstCall[k].marginTop = "40px"

\* C10: a rendered swatch has the extra 40px top margin exactly when a swatch was
\* rendered before it, that swatch's family key differs from its own, and that
\* swatch's property does not end in -hue; the first swatch rendered never has it.
C10_GroupSpacing ==
    LET shown == IF calls = 0 THEN container ELSE firstCall
    IN  \A k \in 1..Len(shown) :
            (shown[k].marginTop = "40px")
                <=> /\ k > 1
                    /\ extractColorName(PropertyOf(shown[k]))
                           # extractColorName(PropertyOf(shown[k - 1]))
                    /\ ~EndsWith(PropertyOf(shown[k - 1]), "-hue")

----------------------------------------------------------------------------
(* Properties of the generator *)

\* A name of the form --dh-color-<family>-<numeric shade>
IsShadeName(property) ==
    /\ StartsWith(property, ColorPrefix)
    /\ ShadeOf(property) # NaN
    /\ Len(property) - TrailingDigits(property) - 1 > Len(ColorPrefix)

\* The <family> of such a name
FamilyOf(property) ==
    SubSeq(property, Len(ColorPrefix) + 1, Len(property) - TrailingDigits(property) - 1)

\* C5: for every name --dh-color-<family>-<numeric shade> the generator groups the
\* name under the key the swatch builder's rule gives it, and two such names get the
\* same key exactly when their <family> is the same, hyphenated families included.
C5_SameFamilyKey ==
    gen.phase # "group"
        => \A a \in 1..Len(gen.names) :
              IsShadeName(gen.names[a])
                  => /\ \E g \in 1..Len(gen.groups) :
                           /\ gen.groups[g].colorName = extractColorName(gen.names[a])
                           /\ \E k \in 1..Len(gen.groups[g].props) :
                                 gen.groups[g].props[k] = gen.names[a]
                     /\ \A b \in 1..Len(gen.names) :
                           IsShadeName(gen.names[b])
                               => ((FamilyOf(gen.names[a]) = FamilyOf(gen.names[b]))
                                      <=> (extractColorName(gen.names[a])
                                              = extractColorName(gen.names[b])))

\* The hue and whether the saturation is a number, of a shade's own HSL text
ShadeHsl(property) == rgbToHsl(hexToRgb(Resolve(property)), HalfUp)
ShadeHue(property) == Number(HueText(ShadeHsl(property)))
ShadeParses(property) == SatText(ShadeHsl(property)) # "NaN"

RECURSIVE SumOf(_)
SumOf(q) == IF q = <<>> THEN 0 ELSE Head(q) + SumOf(Tail(q))

\* The family's average hue, rounded to a whole degree
AverageHue(props) ==
    MathRound(SumOf([k \in 1..Len(props) |-> ShadeHue(props[k])]), Len(props))

\* The hue term of a -hsl declaration: its text up to the first comma
HueTerm(decl) == Before(decl, ",")

HueVar(colorName) == "var(--dh-color-" \o colorName \o "-hue)"

\* The hue term that encodes a signed difference in degrees
EncodedDelta(colorName, delta) ==
    IF delta = 0 THEN HueVar(colorName)
    ELSE IF delta > 0
         THEN "calc(" \o HueVar(colorName) \o " + " \o ToString(delta) \o "deg)"
         ELSE "calc(" \o HueVar(colorName) \o " - " \o ToString(0 - delta) \o "deg)"

\* The properties of the family that gen.out[f] was made from
PropsOf(f) == gen.groups[f].props

\* The family's baseline declaration is its average hue, and each shade's hue term
\* encodes (shade hue - average): so baseline plus delta is the shade's own hue
EncodesDifference(f) ==
    /\ gen.out[f].baseHue[2] = ToString(AverageHue(PropsOf(f))) \o "deg"
    /\ \A k \in 1..Len(PropsOf(f)) :
          HueTerm(gen.out[f].hsl[k][2])
              = EncodedDelta(gen.out[f].colorName,
                             ShadeHue(PropsOf(f)[k]) - AverageHue(PropsOf(f)))

----------------------------------------------------------------------------
(* Properties of the page *)

NoSheetMatches ==
    \A k \in 1..Len(styleSheets) :
        styleSheets[k] = Null \/ ~EndsWith(styleSheets[k], "/" \o cssPath)

\* C6: when, after the load event, no sheet's href ends with "/" + the path, the
\* run fails with No style sheet found, and nothing is ever appended to the
\* container: the attached link is the only change to the document.
C6_NotFoundIsFatal ==
    (loaded /\ pc # "lookup" /\ NoSheetMatches)
        => /\ error = "No style sheet found"
           /\ pc = "failed"
           /\ linkAttached
           /\ container = <<>>
           /\ cssPropertyNames = <<>>
           /\ gen = NoGen

C6_Witness ==
    /\ error = "No style sheet found"
    /\ loaded
    /\ linkAttached
    /\ cssPath = "../hex.css"
    /\ container = <<>>

\* C9: nothing is extracted, generated or rendered before the load event, the
\* palette page raises no error before it, and a script waiting for the event takes
\* no step but the event itself: without it the run stays suspended for good.
C9_LoadThenRender ==
    /\ [](~loaded => /\ cssPropertyNames = <<>>
                     /\ gen = NoGen
                     /\ container = <<>>
                     /\ pc \in {"start", "attach", "await", "failed"}
                     /\ (variant # "iframe" => error = Null /\ pc # "failed"))
    /\ [][pc = "await" => (~loaded /\ loaded' /\ UNCHANGED <<container, error>>)]_vars

C9_Witness ==
    /\ variant = "util"
    /\ loaded
    /\ pc = "done"
    /\ gen.phase = "logged"
    /\ Len(container) >= 2

====
